---- MODULE Spec2Model ----
(***************************************************************************)
(* Model of the citation-linking report parser (report_processor.py):      *)
(* the citation resolver fetch_citation_details over the four per-platform *)
(* SQLite stores, and the report parser parse_and_enrich_report; and of    *)
(* the orchestration of the pipeline scripts (run_pipeline.py).            *)
(*                                                                         *)
(* Strings are sequences of tokens.  A token is a single character, or an  *)
(* indivisible run of characters none of which is examined by the code     *)
(* ("Reddit", "https://www.reddit.com", a formatted date).  Offsets into   *)
(* a string are Python offsets (0-based); text[a:b] is Slice(text, a, b).  *)
(***************************************************************************)
EXTENDS Integers, Sequences, FiniteSets, TLC

VARIABLES
    store,        \* platform key -> state of that platform's SQLite file
    rewrites,     \* number of times a store file has been replaced
    resolved,     \* the last direct call of fetch_citation_details
    input,        \* the contents of llm_analysis_output.txt
    raw_text,     \* parse_and_enrich_report: the (stripped) input
    pc,           \* parse_and_enrich_report: position in the function
    last_end,     \* parse_and_enrich_report: last_end
    parsed_report,\* parse_and_enrich_report: parsed_report
    citation_cache,\* parse_and_enrich_report: citation_cache
    cur,          \* parse_and_enrich_report: locals of the current match
    fetch_log,    \* ids passed to fetch_citation_details in this run, in order
    open_conns,   \* sqlite3 connections opened by fetch_citation_details and not closed
    data_dir,     \* DATA_DIR of the scrapers and llm_analysis.py (PERSISTENT_STORAGE_PATH)
    files,        \* path -> state of the artifact file at that path
    step,         \* run_pipeline.main: index of the script of the current iteration
    runner,       \* run_pipeline.main: position ("off" when no pipeline runs)
    started,      \* run_pipeline: the scripts started so far, in order
    finished,     \* run_pipeline: how each started script ended, in order
    exit_status,  \* run_pipeline: status passed to sys.exit, NotExited before
    backend_started, \* run_pipeline: start_backend has been called
    api_key,      \* llm_analysis: OPENROUTER_API_KEY is set
    attempt,      \* process_data_with_llm: attempt
    llm_pc,       \* process_data_with_llm: position in the function
    requests,     \* process_data_with_llm: calls of requests.post made
    delays,       \* process_data_with_llm: arguments of time.sleep, in order
    response,     \* process_data_with_llm: message content of the last response
    analysis      \* the value process_data_with_llm returned

storeVars == <<store, rewrites>>
parseVars == <<raw_text, pc, last_end, parsed_report, citation_cache, cur, fetch_log>>
pipeVars == <<data_dir, files, step, runner, started, finished, exit_status,
              backend_started>>
llmVars == <<api_key, attempt, llm_pc, requests, delays, response, analysis>>
vars == <<store, rewrites, resolved, input, raw_text, pc, last_end, parsed_report,
          citation_cache, cur, fetch_log, open_conns, data_dir, files, step, runner,
          started, finished, exit_status, backend_started, api_key, attempt, llm_pc,
          requests, delays, response, analysis>>

-----------------------------------------------------------------------------
(* Bounds *)

MaxRewrites == 1
MaxSegs == 3
MaxLines == 2

-----------------------------------------------------------------------------
(* Python values and string helpers *)

PyNone == [t |-> "None"]
PyStr(s) == [t |-> "str", s |-> s]
PyNum(n) == [t |-> "num", n |-> n]

\* bool(v)
Truthy(v) ==
    CASE v.t = "None" -> FALSE
      [] v.t = "str" -> v.s # <<>>
      [] v.t = "num" -> v.n # 0

\* str(v), as used by f-strings and str()
StrOf(v) ==
    CASE v.t = "None" -> <<"None">>
      [] v.t = "str" -> v.s
      [] v.t = "num" -> <<ToString(v.n)>>

Min(S) == CHOOSE x \in S : \A y \in S : x <= y
Max(S) == CHOOSE x \in S : \A y \in S : x >= y

\* text[a:b] for 0 <= a, b
Slice(s, a, b) == SubSeq(s, a + 1, IF b > Len(s) THEN Len(s) ELSE b)

IsSpace(c) == c \in {" ", "\n", "\t"}

\* str.strip()
Strip(s) ==
    LET nonsp == {i \in 1..Len(s) : ~IsSpace(s[i])}
    IN  IF nonsp = {} THEN <<>> ELSE SubSeq(s, Min(nonsp), Max(nonsp))

StartsWith(s, p) == Len(s) >= Len(p) /\ SubSeq(s, 1, Len(p)) = p

\* 0-based offsets at which the separator sep occurs in s
Occurrences(s, sep) ==
    {i \in 0..(Len(s) - Len(sep)) : Slice(s, i, i + Len(sep)) = sep}

\* str.split(sep): non-overlapping occurrences, left to right
RECURSIVE Split(_, _)
Split(s, sep) ==
    LET occ == Occurrences(s, sep)
    IN  IF occ = {} THEN <<s>>
        ELSE LET i == Min(occ)
             IN  <<Slice(s, 0, i)>> \o Split(Slice(s, i + Len(sep), Len(s)), sep)

\* str.split(sep, 1)
Split1(s, sep) ==
    LET occ == Occurrences(s, sep)
    IN  IF occ = {} THEN <<s>>
        ELSE LET i == Min(occ)
             IN  <<Slice(s, 0, i), Slice(s, i + Len(sep), Len(s))>>

Last(q) == q[Len(q)]

RECURSIVE Concat(_)
Concat(q) == IF q = <<>> THEN <<>> ELSE Head(q) \o Concat(Tail(q))

RECURSIVE SelectNonEmpty(_)
SelectNonEmpty(q) ==
    IF q = <<>> THEN <<>>
    ELSE IF Head(q) = <<>> THEN SelectNonEmpty(Tail(q))
         ELSE <<Head(q)>> \o SelectNonEmpty(Tail(q))

RECURSIVE MapStrip(_)
MapStrip(q) == IF q = <<>> THEN <<>> ELSE <<Strip(Head(q))>> \o MapStrip(Tail(q))

-----------------------------------------------------------------------------
(* Configuration *)

Platforms == {"R", "YT", "AS", "GP"}

DB_CONFIG ==
    [R  |-> [db_path |-> "data/reddit_data.db",         platform_name |-> <<"Reddit">>],
     YT |-> [db_path |-> "data/youtube_comments.db",    platform_name |-> <<"Youtube">>],
     AS |-> [db_path |-> "data/app_reviews.db",         platform_name |-> <<"App Store">>],
     GP |-> [db_path |-> "data/google_play_reviews.db", platform_name |-> <<"Google Play">>]]

\* re.match(r"(R|YT|AS|GP)_", citation_id): group 1, or "" when there is no match
PrefixMatch(citation_id) ==
    IF StartsWith(citation_id, <<"R", "_">>) THEN "R"
    ELSE IF StartsWith(citation_id, <<"Y", "T", "_">>) THEN "YT"
    ELSE IF StartsWith(citation_id, <<"A", "S", "_">>) THEN "AS"
    ELSE IF StartsWith(citation_id, <<"G", "P", "_">>) THEN "GP"
    ELSE ""

-----------------------------------------------------------------------------
(* The source record stores.  One SQLite file per platform:                 *)
(*   file      "missing"    os.path.exists(db_path) is false                *)
(*             "unopenable" the path exists but sqlite3.connect raises      *)
(*             "corrupt"    connect succeeds, every statement raises        *)
(*             "ok"         a readable database                             *)
(*   has_table the table the lookup reads exists                            *)
(*   rows      its rows, in rowid order: key is the native key column,      *)
(*             text the text column, date the date column, link the third   *)
(*             selected column (post_id, video_id, or the review URL)       *)
(*   has_posts, posts   reddit_posts (post_id, post_url); Reddit only       *)
(* Numeric timestamps count whole days since 1970-01-01.                    *)

Store(file, has_table, rows, has_posts, posts) ==
    [file |-> file, has_table |-> has_table, rows |-> rows,
     has_posts |-> has_posts, posts |-> posts]

MissingStore == Store("missing", FALSE, <<>>, FALSE, <<>>)

Row(key, text, date, link) == [key |-> key, text |-> text, date |-> date, link |-> link]

\* datetime.fromtimestamp accepts 0001-01-01 .. 9999-12-31
MinTimestamp == 0 - 719162
MaxTimestamp == 2932896

BrokenStores ==
    {MissingStore,
     Store("unopenable", FALSE, <<>>, FALSE, <<>>),
     Store("corrupt", FALSE, <<>>, FALSE, <<>>),
     Store("ok", FALSE, <<>>, FALSE, <<>>)}

RedditDates == {PyNum(19675), PyNum(0), PyNum(MaxTimestamp + 1), PyNone}
RedditPost == [post_id |-> <<"p">>, post_url |-> PyStr(<<"/r/x">>)]

RedditRow(date) == Row(<<"a">>, PyStr(<<"hello">>), date, PyStr(<<"p">>))

RedditStores ==
    {Store("ok", TRUE, <<>>, TRUE, <<RedditPost>>),
     Store("ok", TRUE, <<RedditRow(PyNum(19675))>>, TRUE, <<>>),
     Store("ok", TRUE, <<RedditRow(PyNum(19675))>>, FALSE, <<>>)} \cup
    {Store("ok", TRUE, <<RedditRow(d)>>, TRUE, <<RedditPost>>) : d \in RedditDates}

YoutubeDate == PyStr(<<"2024-01-02", "T", "03:04:05Z">>)
YoutubeRowA == Row(<<"a">>, PyStr(<<"nice">>), YoutubeDate, PyStr(<<"v">>))
YoutubeRowA2 == Row(<<"a">>, PyStr(<<"edited">>), YoutubeDate, PyStr(<<"w">>))
YoutubeRowAB == Row(<<"a", "_", "b">>, PyStr(<<"under">>), YoutubeDate, PyStr(<<"v">>))

YoutubeStores ==
    {Store("ok", TRUE, rs, FALSE, <<>>) :
        rs \in {<<>>, <<YoutubeRowA>>, <<YoutubeRowA2>>, <<YoutubeRowAB, YoutubeRowA>>}}

ReviewDate == PyStr(<<"2024-01-02", " ", "03:04:05">>)

AppStoreStores ==
    {Store("ok", TRUE, rs, FALSE, <<>>) :
        rs \in {<<>>,
                <<Row(<<"9">>, PyStr(<<"good">>), ReviewDate, PyStr(<<"https://apps.apple.com/r9">>))>>,
                <<Row(<<"7">>, PyNone, PyNone, PyNone),
                  Row(<<"9">>, PyStr(<<"good">>), PyStr(<<>>), PyStr(<<>>))>>}}

GooglePlayStores ==
    {Store("ok", TRUE, rs, FALSE, <<>>) :
        rs \in {<<>>,
                <<Row(<<"a">>, PyStr(<<"fine">>), ReviewDate, PyStr(<<"https://play.google.com/x">>))>>,
                <<Row(<<"a", "_", "b">>, PyStr(<<"meh">>), PyNum(19675), PyNone)>>}}

\* the states a platform's scraper (or anything else) can leave its file in
StoreStates(p) ==
    BrokenStores \cup
    (CASE p = "R" -> RedditStores
       [] p = "YT" -> YoutubeStores
       [] p = "AS" -> AppStoreStores
       [] p = "GP" -> GooglePlayStores)

-----------------------------------------------------------------------------
(* SQL *)

Contains(s, c) == \E i \in 1..Len(s) : s[i] = c

Digits == {"0", "1", "2", "3", "4", "5", "6", "7", "8", "9"}
IsDigits(s) == s # <<>> /\ \A i \in 1..Len(s) : s[i] \in Digits

RECURSIVE StripZeros(_)
StripZeros(s) == IF Len(s) > 1 /\ Head(s) = "0" THEN StripZeros(Tail(s)) ELSE s

WhereEq(key) == [kind |-> "eq", key |-> key]
WhereAll == [kind |-> "all"]
WhereError == [kind |-> "error"]

\* The condition SQLite reads from   col = '{db_id}' LIMIT 1   after the
\* identifier is spliced in.  Without a quote the literal is db_id itself.  With
\* a quote the literal ends there and the rest is read as SQL: a trailing
\* comment leaves the comparison, an OR with a true comparison accepts every
\* row, anything else this model knows is a syntax error.
QuotedWhere(db_id) ==
    IF ~Contains(db_id, "'") THEN WhereEq(db_id)
    ELSE LET parts == Split1(db_id, <<"'">>)
             lit == parts[1]
             rest == parts[2]
         IN  IF rest = <<"-", "-">> THEN WhereEq(lit)
             ELSE IF rest = <<" OR ", "'", "1", "'", "=", "'", "1">> THEN WhereAll
             ELSE WhereError

\* The condition SQLite reads from   "Review ID" = {db_id}   (no quotes)
BareWhere(db_id) ==
    IF IsDigits(db_id) THEN WhereEq(StripZeros(db_id))
    ELSE IF db_id = <<"1", " OR ", "1">> THEN WhereAll
    ELSE WhereError

Matches(w, key) == w.kind = "all" \/ (w.kind = "eq" /\ w.key = key)

SqlError == [kind |-> "error"]
NoRow == [kind |-> "none"]
GotRow(r) == [kind |-> "row", row |-> r]

\* cursor = conn.execute(sql_query); row = cursor.fetchone()
ExecLookup(platform_key, db_id, st) ==
    IF st.file = "corrupt" \/ ~st.has_table THEN SqlError
    ELSE LET w == IF platform_key = "AS" THEN BareWhere(db_id) ELSE QuotedWhere(db_id)
             hits == {i \in 1..Len(st.rows) : Matches(w, st.rows[i].key)}
         IN  IF w.kind = "error" THEN SqlError
             ELSE IF hits = {} THEN NoRow
             ELSE GotRow(st.rows[Min(hits)])

\* conn.execute(f"SELECT post_url FROM reddit_posts WHERE post_id = '{post_id}'").fetchone()
ExecPostLookup(post_id, st) ==
    IF st.file = "corrupt" \/ ~st.has_posts THEN SqlError
    ELSE LET w == QuotedWhere(StrOf(post_id))
             hits == {i \in 1..Len(st.posts) : Matches(w, st.posts[i].post_id)}
         IN  IF w.kind = "error" THEN SqlError
             ELSE IF hits = {} THEN NoRow
             ELSE GotRow(st.posts[Min(hits)])

-----------------------------------------------------------------------------
(* Dates *)

Pad(n, width) ==
    LET str == ToString(n)
    IN  IF width = 2 /\ n < 10 THEN "0" \o str
        ELSE IF width = 4 /\ n < 10 THEN "000" \o str
        ELSE IF width = 4 /\ n < 100 THEN "00" \o str
        ELSE IF width = 4 /\ n < 1000 THEN "0" \o str
        ELSE str

\* datetime.datetime.fromtimestamp(n).strftime('%Y-%m-%d') for a timestamp of
\* n days: the proleptic Gregorian date, as one token
Strftime(n) ==
    LET z == n + 719468
        era == z \div 146097
        doe == z - era * 146097
        yoe == (doe - (doe \div 1460) + (doe \div 36524) - (doe \div 146096)) \div 365
        doy == doe - (365 * yoe + (yoe \div 4) - (yoe \div 100))
        mp == (5 * doy + 2) \div 153
        d == doy - ((153 * mp + 2) \div 5) + 1
        m == IF mp < 10 THEN mp + 3 ELSE mp - 9
        y == yoe + era * 400 + (IF m <= 2 THEN 1 ELSE 0)
    IN  Pad(y, 4) \o "-" \o Pad(m, 2) \o "-" \o Pad(d, 2)

TimestampInRange(n) == MinTimestamp <= n /\ n <= MaxTimestamp

-----------------------------------------------------------------------------
(* fetch_citation_details *)

Return(rec) == [kind |-> "return", value |-> rec]
Raise(exc) == [kind |-> "raise", exc |-> exc]

Citation(citation_id, comment_text, comment_url, source_platform, date) ==
    [id |-> citation_id, comment_text |-> comment_text, comment_url |-> comment_url,
     source_platform |-> source_platform, date |-> date]

InvalidIdText == PyStr(<<"Source not found (Invalid ID format)">>)
ConnectionFailedText == PyStr(<<"Source not found (DB connection failed).">>)
NotInDatabaseText == PyStr(<<"Source not found in database.">>)
NoUrl == PyStr(<<"#">>)
UnknownPlatform == <<"Unknown">>

\* faulty variant: sqlite3.Error from connect is not caught as "no connection"
get_db_connection_uncaught(st) == st.file # "missing"

\* get_db_connection(db_path): TRUE when a connection is returned, FALSE for None
get_db_connection(st) == st.file \notin {"missing", "unopenable"}

\* the native key the lookup uses
DbId(platform_key, citation_id) ==
    CASE platform_key = "R" -> Last(Split(citation_id, <<":">>))
      [] platform_key = "YT" -> Split1(citation_id, <<"_">>)[2]
      [] platform_key = "AS" -> Last(Split(citation_id, <<"_">>))
      [] platform_key = "GP" -> Split1(citation_id, <<"_">>)[2]

\* faulty variant: the not-found sentinel forgets the platform
NotFound_unknown(citation_id, platform_key) ==
    Return(Citation(citation_id, NotInDatabaseText, NoUrl, UnknownPlatform, PyNone))

\* the final return of the function, also reached after a caught sqlite3.Error
NotFound(citation_id, platform_key) ==
    Return(Citation(citation_id, NotInDatabaseText, NoUrl,
                    DB_CONFIG[platform_key].platform_name, PyNone))

\* the "URL Formatting" block; [ok |-> FALSE] when the post lookup raises sqlite3.Error
FormatUrl(platform_key, citation_id, row, st) ==
    LET url == IF platform_key \in {"AS", "GP"} THEN row.link ELSE NoUrl
    IN  CASE platform_key = "R" ->
               LET p_row == ExecPostLookup(row.link, st)
               IN  IF p_row.kind = "error" THEN [ok |-> FALSE]
                   ELSE IF p_row.kind = "row"
                        THEN [ok |-> TRUE,
                              url |-> PyStr(<<"https://www.reddit.com">> \o StrOf(p_row.row.post_url))]
                        ELSE [ok |-> TRUE, url |-> url]
          [] platform_key = "YT" ->
               LET raw_comment_id == Last(Split(citation_id, <<"_">>))
               IN  [ok |-> TRUE,
                    url |-> PyStr(<<"https://www.youtube.com/watch?v=">> \o StrOf(row.link)
                                  \o <<"&lc=">> \o raw_comment_id)]
          [] OTHER ->
               [ok |-> TRUE, url |-> IF ~Truthy(url) THEN NoUrl ELSE url]

\* the "Date Formatting" block; [ok |-> FALSE] when fromtimestamp raises
FormatDate(platform_key, date_val) ==
    IF platform_key = "R" /\ date_val.t = "num"
    THEN IF TimestampInRange(date_val.n)
         THEN [ok |-> TRUE, date |-> PyStr(<<Strftime(date_val.n)>>)]
         ELSE [ok |-> FALSE]
    ELSE [ok |-> TRUE,
          date |-> IF Truthy(date_val)
                   THEN PyStr(Split(StrOf(date_val), <<" ">>)[1])
                   ELSE PyNone]

fetch_citation_details(citation_id, stores) ==
    LET platform_key == PrefixMatch(citation_id)
    IN  IF platform_key = ""
        THEN Return(Citation(citation_id, InvalidIdText, NoUrl, UnknownPlatform, PyNone))
        ELSE
        LET config == DB_CONFIG[platform_key]
            st == stores[platform_key]
        IN  IF ~get_db_connection(st)
            THEN Return(Citation(citation_id, ConnectionFailedText, NoUrl,
                                 config.platform_name, PyNone))
            ELSE
            LET db_id == DbId(platform_key, citation_id)
                got == ExecLookup(platform_key, db_id, st)
            IN  IF got.kind # "row" THEN NotFound(citation_id, platform_key)
                ELSE
                LET u == FormatUrl(platform_key, citation_id, got.row, st)
                    d == FormatDate(platform_key, got.row.date)
                IN  IF ~u.ok THEN NotFound(citation_id, platform_key)
                    ELSE IF ~d.ok THEN Raise("OverflowError")
                    ELSE Return(Citation(citation_id, got.row.text, u.url,
                                         config.platform_name, d.date))

\* sqlite3.connect(db_path): a file that is not there is created, empty
Connect(st) ==
    IF st.file = "missing" THEN Store("ok", FALSE, <<>>, FALSE, <<>>) ELSE st

\* faulty variant: connect without the os.path.exists test before it
StoreAfterOpen_unchecked(st) == Connect(st)

\* get_db_connection: the file after the call; connect runs only when
\* os.path.exists(db_path) holds
StoreAfterOpen(st) == IF st.file = "missing" THEN st ELSE Connect(st)

\* the stores after a call of fetch_citation_details: the one file of the id's
\* platform is opened; each execute runs one SELECT, which writes nothing
StoresAfter(citation_id, stores) ==
    LET platform_key == PrefixMatch(citation_id)
    IN  IF platform_key = "" THEN stores
        ELSE [stores EXCEPT ![platform_key] = StoreAfterOpen(@)]

\* the way a call leaves fetch_citation_details
ExitPath(citation_id, stores) ==
    LET platform_key == PrefixMatch(citation_id)
    IN  IF platform_key = "" THEN "invalid_id"
        ELSE IF ~get_db_connection(stores[platform_key]) THEN "no_connection"
        ELSE
        LET st == stores[platform_key]
            got == ExecLookup(platform_key, DbId(platform_key, citation_id), st)
        IN  IF got.kind = "error" THEN "sql_error"
            ELSE IF got.kind # "row" THEN "not_found"
            ELSE IF ~FormatUrl(platform_key, citation_id, got.row, st).ok THEN "sql_error"
            ELSE IF ~FormatDate(platform_key, got.row.date).ok THEN "raised"
            ELSE "found"

\* get_db_connection returned a connection
Connects(path) == path \notin {"invalid_id", "no_connection"}

\* faulty variant: conn.close() after the try statement in place of finally
Closes_after_try(path) == path \in {"not_found", "sql_error"}

\* finally: conn.close() runs on every way out of the try statement
Closes(path) == path \in {"found", "not_found", "sql_error", "raised"}

\* connections the call opened and did not close
ConnectionsLeftOpen(citation_id, stores) ==
    LET path == ExitPath(citation_id, stores)
    IN  IF Connects(path) /\ ~Closes(path) THEN 1 ELSE 0

-----------------------------------------------------------------------------
(* The citation pattern  (.*?)\s*\[\[([^\]]+)\]\]  with re.DOTALL *)

\* offset at which the run of whitespace starting at offset i ends
SpaceEnd(text, i) ==
    Min({j \in i..Len(text) : j = Len(text) \/ ~IsSpace(text[j + 1])})

\* offset at which the run of characters other than "]" starting at offset k ends
IdsEnd(text, k) ==
    Min({e \in k..Len(text) : e = Len(text) \/ text[e + 1] = "]"})

\* \s*\[\[([^\]]+)\]\] matched at offset i.  \s* and [^\]]+ are greedy, and
\* giving back a character never helps: the next character would then have to be
\* "[" (resp. "]") and is a space (resp. not "]").
GroupAt(text, i) ==
    LET j == SpaceEnd(text, i)
        k == j + 2
        e == IF k <= Len(text) THEN IdsEnd(text, k) ELSE k
    IN  [ok |-> /\ Slice(text, j, k) = <<"[", "[">>
                /\ e > k
                /\ Slice(text, e, e + 2) = <<"]", "]">>,
         ids_start |-> k, ids_end |-> e, end |-> e + 2]

NoMatch == [found |-> FALSE]

\* faulty variant: (.*) in place of (.*?), group 1 as long as possible
Search_greedy(text, pos) ==
    LET groups == {i \in pos..Len(text) : GroupAt(text, i).ok}
    IN  IF groups = {} THEN NoMatch
        ELSE LET i == Max(groups)
                 g == GroupAt(text, i)
             IN  [found |-> TRUE, start |-> pos,
                  group1 |-> Slice(text, pos, i),
                  group2 |-> Slice(text, g.ids_start, g.ids_end),
                  end |-> g.end]

\* the next match of pattern.finditer(raw_text) when the scan stands at offset pos:
\* the leftmost start from which the pattern matches, group 1 as short as possible
Search(text, pos) ==
    LET groups == {i \in pos..Len(text) : GroupAt(text, i).ok}
    IN  IF groups = {} THEN NoMatch
        ELSE LET start == Min({s \in pos..Len(text) : \E i \in groups : i >= s})
                 i == Min({g \in groups : g >= start})
                 g == GroupAt(text, i)
             IN  [found |-> TRUE, start |-> start,
                  group1 |-> Slice(text, start, i),
                  group2 |-> Slice(text, g.ids_start, g.ids_end),
                  end |-> g.end]

-----------------------------------------------------------------------------
(* parse_and_enrich_report *)

Insight(insight, citations) == [insight |-> insight, citations |-> citations]

RECURSIVE UncitedInsights(_)
UncitedInsights(blocks) ==
    IF blocks = <<>> THEN <<>>
    ELSE <<Insight(Head(blocks), <<>>)>> \o UncitedInsights(Tail(blocks))

\* [b.strip() for b in text.split('\n\n') if b.strip()], each as an uncited insight
UncitedBlocks(text) ==
    UncitedInsights(SelectNonEmpty(MapStrip(Split(text, <<"\n", "\n">>))))

\* [id.strip() for id in raw_ids_block.split(',') if id.strip()]
CitationIds(raw_ids_block) ==
    SelectNonEmpty(MapStrip(Split(raw_ids_block, <<",">>)))

\* faulty variant: group 1 is used as it is
InsightText_unstripped(match) == match.group1

\* insight_text_raw = match.group(1).strip()
InsightText(match) == Strip(match.group1)

\* faulty variant: the new insight goes to the front
AppendInsight_front(report, insight) == <<insight>> \o report

\* parsed_report.append({...})
AppendInsight(report, insight) == Append(report, insight)

NoCur == [insight_text_raw |-> <<>>, citation_ids |-> <<>>, citations |-> <<>>,
          i |-> 0, end |-> 0]

EmptyCache == [x \in {} |-> x]

\* faulty variant: the cache is never consulted
NeedsFetch_always(citation_id, cache) == TRUE

\* if citation_id not in citation_cache
NeedsFetch(citation_id, cache) == citation_id \notin DOMAIN cache

-----------------------------------------------------------------------------
(* Inputs *)

IdPrefixes == {<<"R", "_">>, <<"Y", "T", "_">>, <<"A", "S", "_">>, <<"G", "P", "_">>}

IdSuffixes ==
    {<<>>, <<"a">>, <<"z">>, <<"9">>, <<"p", ":", "a">>, <<"a", "_", "b">>,
     <<"a", "'">>, <<"a", "'", "-", "-">>,
     <<"z", "'", " OR ", "'", "1", "'", "=", "'", "1">>, <<"1", " OR ", "1">>}

\* citation ids handed to fetch_citation_details directly: every known prefix
\* with every suffix, and ids without a known prefix
IdSet ==
    {p \o x : p \in IdPrefixes, x \in IdSuffixes}
    \cup {<<>>, <<"a">>, <<"R">>, <<"R", "a">>, <<"X", "_", "a">>, <<"x", "R", "_", "a">>}

IdYT == <<"Y", "T", "_", "a">>
IdX == <<"X", "_", "1">>

\* text without brackets
PlainSegments == {<<"a">>, <<"*", "*", "b", "*", "*">>}

\* a group that names X_1 twice, with a space before it
DupGroup ==
    <<" ", "[", "[">> \o IdX \o <<",", " ">> \o IdX \o <<",">> \o IdYT \o <<"]", "]">>

Segments ==
    PlainSegments \cup
    {<<"\n", "\n">>,
     <<"[", "[">>,
     <<"[", "[">> \o IdYT \o <<"]", "]">>,
     DupGroup}

\* free text: up to MaxSegs segments, in any order
SegTexts == {Concat(f) : f \in UNION {[1..n -> Segments] : n \in 0..MaxSegs}}

NumberedLine(n, body, id) ==
    <<ToString(n), ".", " ">> \o body \o <<" ", "[", "[">> \o id \o <<"]", "]">>

RECURSIVE JoinLines(_, _)
JoinLines(parts, n) ==
    IF n > Len(parts) THEN <<>>
    ELSE (IF n = 1 THEN <<>> ELSE <<"\n">>)
         \o NumberedLine(n, parts[n][1], parts[n][2]) \o JoinLines(parts, n + 1)

\* the numbered-list fallback: up to MaxLines lines "N. body [[id]]", no blank lines
NumberedTexts ==
    {JoinLines(f, 1) :
        f \in UNION {[1..n -> {<<"a">>, <<"a", " ", "b">>} \X {IdX, IdYT}] : n \in 1..MaxLines}}

\* "topic: body [[id]]" with the colon early, and with the colon after 31 characters
TopicTexts ==
    {<<"t", "o", ":", " ", "a", " ", "[", "[">> \o IdYT \o <<"]", "]">>,
     [i \in 1..31 |-> "x"] \o <<":", " ", "a", " ", "[", "[">> \o IdYT \o <<"]", "]">>}

\* unbalanced and empty brackets
MalformedTexts ==
    {<<"]", "]">>,
     <<"[", "[", "]", "]">>,
     <<"a", " ", "[", "[", "]", "]", " ", "b">>,
     <<"a", " ", "[", "[", "a", "]", "b", "]", "]">>,
     <<"[", "[", "[", "a", "]", "]">>,
     <<"a", " ", "[", "[", " ", ",", "]", "]", "b">>}

\* the separator the LLM is told to put between entries
BlankLine == <<"\n", "\n">>

YtGroup == <<"[", "[">> \o IdYT \o <<"]", "]">>

\* two blocks, one of them without a citation group, in both orders
BlockTexts ==
    {uncited \o BlankLine \o cited \o YtGroup : uncited, cited \in PlainSegments}
    \cup {cited \o YtGroup \o BlankLine \o uncited : uncited, cited \in PlainSegments}

IdR == <<"R", "_", "p", ":", "a">>

\* texts that cite a Reddit comment, next to text without delimiters and text
\* with unbalanced or empty brackets
StoreTexts ==
    {<<"a">>,
     <<"a", " ", "[", "[">> \o IdR \o <<"]", "]">>,
     <<"a", " ", "[", "[">> \o IdYT \o <<",", " ">> \o IdR \o <<"]", "]">> \o BlankLine \o <<"b">>}
    \cup MalformedTexts

Texts == SegTexts \cup NumberedTexts \cup TopicTexts \cup MalformedTexts \cup BlockTexts

-----------------------------------------------------------------------------
(* The pipeline: scripts and artifact files *)

PIPELINE_SCRIPTS ==
    <<"scrapers/get_app_store_data.py",
      "scrapers/get_reddit_data.py",
      "scrapers/get_youtube_data.py",
      "scrapers/get_google_play_data.py",
      "scrapers/get_top_comments.py",
      "llm_analysis.py",
      "report_processor.py">>

BACKEND_SCRIPT == "api_proxy.py"

\* a relative path: directory (under the working directory) and file name
Path(dir, name) == [dir |-> dir, name |-> name]

\* the values PERSISTENT_STORAGE_PATH gives DATA_DIR: unset ("data"), or the
\* working directory
DataDirs == {"data", "."}

\* report_processor.py
INPUT_FILE_PATH == Path(".", "llm_analysis_output.txt")
OUTPUT_FILENAME == Path(".", "report_with_sources.json")

\* llm_analysis.py
INPUT_JSON_FILE(dir) == Path(dir, "curated_data_for_llm.json")
LLM_TEXT_OUTPUT(dir) == Path(dir, "llm_analysis_output.txt")

\* get_top_comments.py, OUTPUT_FILENAME
CURATED_OUTPUT_FILENAME == Path(".", "curated_data_for_llm.json")

ArtifactPaths ==
    {INPUT_JSON_FILE(d) : d \in DataDirs} \cup {LLM_TEXT_OUTPUT(d) : d \in DataDirs}
    \cup {OUTPUT_FILENAME}

\* a file is absent, left by an earlier run ("stale"), or written in this run
FileStates == {"absent", "stale", "written"}

Exists(fs, path) == fs[path] # "absent"

\* what process_data_with_llm returns when no request succeeds
ErrorText == <<"Error", ":", " ", "x">>

\* contents of the raw LLM text file
PipelineTexts ==
    {<<>>, ErrorText, <<"a", " ", "[", "[">> \o IdYT \o <<"]", "]">>}

\* the process has not called sys.exit
NotExited == 0 - 1

\* no pipeline is running
PipeOff ==
    /\ data_dir = "data"
    /\ files = [path \in ArtifactPaths |-> "absent"]
    /\ step = 1
    /\ runner = "off"
    /\ started = <<>>
    /\ finished = <<>>
    /\ exit_status = NotExited
    /\ backend_started = FALSE

-----------------------------------------------------------------------------
(* llm_analysis.py: process_data_with_llm *)

MAX_RETRIES == 5
INITIAL_DELAY == 5

RECURSIVE Pow2(_)
Pow2(n) == IF n = 0 THEN 1 ELSE 2 * Pow2(n - 1)

\* faulty variant: the delay grows by INITIAL_DELAY each time
Delay_linear(k) == INITIAL_DELAY * (k + 1)

\* INITIAL_DELAY * (2 ** attempt)
Delay(k) == INITIAL_DELAY * Pow2(k)

NoKeyText == <<"Error", ":", " ", "OPENROUTER_API_KEY environment variable not set.">>
UnknownFailureText == <<"Error", ":", " ", "Unknown failure.">>

\* re.sub(r'<think>.*?</think>', '', content, flags=re.DOTALL); the two tags are
\* single tokens
RECURSIVE RemoveThink(_)
RemoveThink(text) ==
    IF text = <<>> THEN <<>>
    ELSE LET closes == {j \in 2..Len(text) : text[j] = "</think>"}
         IN  IF Head(text) = "<think>" /\ closes # {}
             THEN RemoveThink(SubSeq(text, Min(closes) + 1, Len(text)))
             ELSE <<Head(text)>> \o RemoveThink(Tail(text))

\* lines 85-87: strip, remove the reasoning tags, strip
CleanContent(content) == Strip(RemoveThink(Strip(content)))

\* what a request gives: a message content, or any exception (no connection, an
\* HTTP error status, a body without choices)
Reply(content) == [ok |-> TRUE, content |-> content]
NoReply == [ok |-> FALSE]

ThinkParts ==
    {<<>>, <<"<think>", "x", "</think>">>, <<"<think>", "\n", "</think>", " ">>,
     <<"<think>">>}

\* message contents: an entry, with reasoning tags and white space around it
LlmContents ==
    {pre \o think \o body \o post :
        pre \in {<<>>, <<" ">>},
        think \in ThinkParts,
        body \in {<<>>, <<"a">>, <<"a", " ", "[", "[">> \o IdYT \o <<"]", "]">>},
        post \in {<<>>, <<"\n">>}}

LlmReplies == {Reply(c) : c \in LlmContents} \cup {NoReply}

\* the replies of a pipeline run
PipelineReplies ==
    {Reply(<<"<think>", "x", "</think>", "a", " ", "[", "[">> \o IdYT \o <<"]", "]">>), NoReply}

-----------------------------------------------------------------------------
(* Actions *)

NoCall == [called |-> FALSE]

\* before any scraper has run: data/ holds no store file
InitBase ==
    /\ store = [p \in Platforms |-> MissingStore]
    /\ rewrites = 0
    /\ resolved = NoCall
    /\ raw_text = <<>>
    /\ pc = "idle"
    /\ last_end = 0
    /\ parsed_report = <<>>
    /\ citation_cache = EmptyCache
    /\ cur = NoCur
    /\ fetch_log = <<>>
    /\ open_conns = 0
    /\ attempt = 0
    /\ llm_pc = "idle"
    /\ requests = 0
    /\ delays = <<>>
    /\ response = PyNone
    /\ analysis = PyNone

Init == InitBase /\ PipeOff /\ api_key = FALSE /\ input \in Texts

InitResolve == InitBase /\ PipeOff /\ api_key = FALSE /\ input = <<>>

InitParseStores == InitBase /\ PipeOff /\ api_key = FALSE /\ input \in StoreTexts

\* process_data_with_llm is about to be called, with or without an API key
InitLlm == InitBase /\ PipeOff /\ api_key \in BOOLEAN /\ input = <<>>

\* run_pipeline.py is started: any files may be left from earlier runs
InitPipeline ==
    /\ InitBase
    /\ data_dir \in DataDirs
    /\ api_key \in BOOLEAN
    /\ files \in [ArtifactPaths -> {"absent", "stale"}]
    /\ input \in (IF Exists(files, INPUT_FILE_PATH) THEN PipelineTexts ELSE {<<>>})
    /\ step = 1
    /\ runner = "loop"
    /\ started = <<>>
    /\ finished = <<>>
    /\ exit_status = NotExited
    /\ backend_started = FALSE

\* the file of platform p is replaced from outside (a scraper run, a restore, a
\* broken disk); the result of an earlier call says nothing about the new file
Rewrite(p) ==
    /\ rewrites < MaxRewrites
    /\ \E st \in StoreStates(p) \ {store[p]} : store' = [store EXCEPT ![p] = st]
    /\ rewrites' = rewrites + 1
    /\ resolved' = NoCall
    /\ UNCHANGED <<input, parseVars, open_conns, pipeVars, llmVars>>

\* get_youtube_data.py, initialize_database: the file and its tables are created
\* if they do not exist
YoutubeInitialize ==
    /\ store["YT"].file = "missing"
    /\ store' = [store EXCEPT !["YT"] = Store("ok", TRUE, <<>>, FALSE, <<>>)]
    /\ UNCHANGED <<rewrites, resolved, input, parseVars, open_conns, pipeVars, llmVars>>

\* get_youtube_data.py, scrape_comments: INSERT OR IGNORE of one comment
YoutubeInsert(row) ==
    /\ store["YT"].file = "ok"
    /\ store["YT"].has_table
    /\ store' = [store EXCEPT !["YT"].rows =
                    IF \E i \in 1..Len(@) : @[i].key = row.key THEN @ ELSE Append(@, row)]
    /\ UNCHANGED <<rewrites, resolved, input, parseVars, open_conns, pipeVars, llmVars>>

\* a caller invokes fetch_citation_details(citation_id)
Resolve(citation_id) ==
    /\ resolved' = [called |-> TRUE, id |-> citation_id,
                    out |-> fetch_citation_details(citation_id, store),
                    path |-> ExitPath(citation_id, store)]
    /\ open_conns' = open_conns + ConnectionsLeftOpen(citation_id, store)
    /\ store' = StoresAfter(citation_id, store)
    /\ UNCHANGED <<rewrites, input, parseVars, pipeVars, llmVars>>

\* main() reads the input file and enters parse_and_enrich_report: lines 169-175
ParseStart ==
    /\ pc \in {"idle", "done", "raised"}
    /\ raw_text' = Strip(input)
    /\ parsed_report' = <<>>
    /\ citation_cache' = EmptyCache
    /\ last_end' = 0
    /\ cur' = NoCur
    /\ fetch_log' = <<>>
    /\ pc' = "match"
    /\ UNCHANGED <<storeVars, resolved, input, open_conns, pipeVars, llmVars>>

\* finditer yields a match: lines 177-190
ParseMatch ==
    /\ pc = "match"
    /\ LET match == Search(raw_text, last_end)
       IN  /\ match.found
           /\ parsed_report' =
                 IF match.start > last_end
                 THEN parsed_report
                      \o UncitedBlocks(Strip(Slice(raw_text, last_end, match.start)))
                 ELSE parsed_report
           /\ cur' = [insight_text_raw |-> InsightText(match),
                      citation_ids |-> CitationIds(Strip(match.group2)),
                      citations |-> <<>>,
                      i |-> 1,
                      end |-> match.end]
    /\ pc' = "cite"
    /\ UNCHANGED <<storeVars, resolved, input, raw_text, last_end, citation_cache, fetch_log, open_conns, pipeVars, llmVars>>

\* one iteration of "for citation_id in citation_ids": lines 192-196
ParseCite ==
    /\ pc = "cite"
    /\ cur.i <= Len(cur.citation_ids)
    /\ LET citation_id == cur.citation_ids[cur.i]
       IN  IF NeedsFetch(citation_id, citation_cache)
           THEN LET details == fetch_citation_details(citation_id, store)
                IN  /\ fetch_log' = Append(fetch_log, citation_id)
                    /\ open_conns' = open_conns + ConnectionsLeftOpen(citation_id, store)
                    /\ store' = StoresAfter(citation_id, store)
                    /\ IF details.kind = "raise"
                       THEN /\ pc' = "raised"
                            /\ UNCHANGED <<citation_cache, cur>>
                       ELSE /\ citation_cache' =
                                 [x \in DOMAIN citation_cache \cup {citation_id} |->
                                     IF x = citation_id THEN details.value
                                     ELSE citation_cache[x]]
                            /\ cur' = [cur EXCEPT !.citations = Append(@, details.value),
                                                  !.i = @ + 1]
                            /\ pc' = "cite"
           ELSE /\ cur' = [cur EXCEPT !.citations = Append(@, citation_cache[citation_id]),
                                      !.i = @ + 1]
                /\ UNCHANGED <<citation_cache, fetch_log, pc, open_conns, store>>
    /\ UNCHANGED <<rewrites, resolved, input, raw_text, last_end, parsed_report, pipeVars, llmVars>>

\* the end of the loop body for one match: lines 198-202
ParseEmit ==
    /\ pc = "cite"
    /\ cur.i > Len(cur.citation_ids)
    /\ parsed_report' = AppendInsight(parsed_report, Insight(cur.insight_text_raw, cur.citations))
    /\ last_end' = cur.end
    /\ cur' = NoCur
    /\ pc' = "match"
    /\ UNCHANGED <<storeVars, resolved, input, raw_text, citation_cache, fetch_log, open_conns, pipeVars, llmVars>>

\* finditer is exhausted: lines 204-210
ParseRemaining ==
    /\ pc = "match"
    /\ ~Search(raw_text, last_end).found
    /\ LET remaining_text == Strip(Slice(raw_text, last_end, Len(raw_text)))
       IN  parsed_report' =
              IF remaining_text # <<>>
              THEN parsed_report \o UncitedBlocks(remaining_text)
              ELSE parsed_report
    /\ pc' = "done"
    /\ UNCHANGED <<storeVars, resolved, input, raw_text, last_end, citation_cache, cur, fetch_log, open_conns, pipeVars, llmVars>>

\* the script of the current iteration of "for script in PIPELINE_SCRIPTS"
Script == PIPELINE_SCRIPTS[step]

\* the ways subprocess.run ends in run_script: exit status 0, a non-zero exit
\* status (CalledProcessError), the interpreter not found (FileNotFoundError)
Outcomes == {"ok", "nonzero", "not_found"}

\* faulty variant: main ignores the value run_script returns
RunScriptReturns_ignored(outcome) ==
    /\ finished' = Append(finished, outcome)
    /\ step' = step + 1
    /\ runner' = "loop"
    /\ UNCHANGED exit_status

\* run_script returns and main goes on: the next iteration, or sys.exit(1)
RunScriptReturns(outcome) ==
    /\ finished' = Append(finished, outcome)
    /\ IF outcome = "ok"
       THEN /\ step' = step + 1
            /\ runner' = "loop"
            /\ UNCHANGED exit_status
       ELSE /\ runner' = "halted"
            /\ exit_status' = 1
            /\ UNCHANGED step

\* run_script up to subprocess.run: the step is logged and the script started
StartStep ==
    /\ runner = "loop"
    /\ step <= Len(PIPELINE_SCRIPTS)
    /\ started' = Append(started, Script)
    /\ runner' = "wait"
    /\ UNCHANGED <<storeVars, resolved, input, parseVars, open_conns, llmVars,
                   data_dir, files, step, finished, exit_status, backend_started>>

ScraperPlatform(script) ==
    CASE script = "scrapers/get_app_store_data.py" -> "AS"
      [] script = "scrapers/get_reddit_data.py" -> "R"
      [] script = "scrapers/get_youtube_data.py" -> "YT"
      [] script = "scrapers/get_google_play_data.py" -> "GP"

\* the store file after initialize_database / initialize_db (CREATE TABLE IF NOT
\* EXISTS), or after to_sql(if_exists='replace') of the App Store scraper
Initialised(p, st) ==
    CASE p = "AS" ->
           Store("ok", TRUE,
                 <<Row(<<"9">>, PyStr(<<"good">>), ReviewDate, PyStr(<<"https://apps.apple.com/r9">>))>>,
                 FALSE, <<>>)
      [] p = "R" -> IF st.file = "missing" THEN Store("ok", TRUE, <<>>, TRUE, <<>>) ELSE st
      [] OTHER -> IF st.file = "missing" THEN Store("ok", TRUE, <<>>, FALSE, <<>>) ELSE st

\* the states a scraper can leave the file report_processor reads in: it writes
\* DATA_DIR/<name>.db, report_processor reads data/<name>.db
ScraperStores(p, outcome, dir, st) ==
    IF dir # "data" \/ outcome = "not_found" THEN {st}
    ELSE IF outcome = "ok" /\ p \in {"R", "GP"} THEN {Initialised(p, st)}
    ELSE {st, Initialised(p, st)}

\* a scraper script runs and ends
RunScraper ==
    /\ runner = "wait"
    /\ Script \in {PIPELINE_SCRIPTS[i] : i \in 1..4}
    /\ \E outcome \in Outcomes :
          /\ \E st \in ScraperStores(ScraperPlatform(Script), outcome, data_dir,
                                     store[ScraperPlatform(Script)]) :
                store' = [store EXCEPT ![ScraperPlatform(Script)] = st]
          /\ RunScriptReturns(outcome)
    /\ UNCHANGED <<rewrites, resolved, input, parseVars, open_conns, llmVars,
                   data_dir, files, started, backend_started>>

\* get_top_comments.py runs and ends: on exit status 0 the curated JSON has been
\* written, unless the write failed (the exception is caught, lines 187-192)
RunCuration ==
    /\ runner = "wait"
    /\ Script = "scrapers/get_top_comments.py"
    /\ \E outcome \in Outcomes :
          /\ IF outcome = "ok"
             THEN \E wrote \in BOOLEAN :
                     files' = IF wrote
                              THEN [files EXCEPT ![CURATED_OUTPUT_FILENAME] = "written"]
                              ELSE files
             ELSE UNCHANGED files
          /\ RunScriptReturns(outcome)
    /\ UNCHANGED <<storeVars, resolved, input, parseVars, open_conns, llmVars,
                   data_dir, started, backend_started>>

\* process_data_with_llm is entered: lines 23-24, and the loop header of line 81
LlmCall ==
    /\ llm_pc = "idle"
    /\ requests' = 0
    /\ delays' = <<>>
    /\ response' = PyNone
    /\ attempt' = 0
    /\ IF ~api_key
       THEN analysis' = PyStr(NoKeyText) /\ llm_pc' = "returned"
       ELSE IF MAX_RETRIES = 0
            THEN analysis' = PyStr(UnknownFailureText) /\ llm_pc' = "returned"
            ELSE analysis' = PyNone /\ llm_pc' = "request"
    /\ UNCHANGED <<storeVars, resolved, input, parseVars, open_conns, pipeVars, api_key>>

\* one iteration of "for attempt in range(MAX_RETRIES)": lines 82-93
LlmAttempt(reply) ==
    /\ llm_pc = "request"
    /\ attempt < MAX_RETRIES
    /\ requests' = requests + 1
    /\ IF reply.ok
       THEN /\ response' = PyStr(reply.content)
            /\ analysis' = PyStr(CleanContent(reply.content))
            /\ llm_pc' = "returned"
            /\ UNCHANGED <<attempt, delays>>
       ELSE /\ response' = PyNone
            /\ IF attempt < MAX_RETRIES - 1
               THEN /\ delays' = Append(delays, Delay(attempt))
                    /\ attempt' = attempt + 1
                    /\ UNCHANGED <<llm_pc, analysis>>
               ELSE /\ analysis' = PyStr(ErrorText)
                    /\ llm_pc' = "returned"
                    /\ UNCHANGED <<attempt, delays>>
    /\ UNCHANGED <<storeVars, resolved, input, parseVars, open_conns, pipeVars, api_key>>

\* llm_analysis.main, lines 97-101: the curated JSON is there and is read, and
\* process_data_with_llm is called
AnalysisStart ==
    /\ runner = "wait"
    /\ Script = "llm_analysis.py"
    /\ Exists(files, INPUT_JSON_FILE(data_dir))
    /\ LlmCall

\* llm_analysis.py ends before the call: sys.exit(1) without the curated JSON
\* (line 98), or the script does not get as far as main
AnalysisAbort ==
    /\ runner = "wait"
    /\ Script = "llm_analysis.py"
    /\ llm_pc = "idle"
    /\ \E outcome \in Outcomes \ {"ok"} : RunScriptReturns(outcome)
    /\ UNCHANGED <<storeVars, resolved, input, parseVars, open_conns, llmVars,
                   data_dir, files, started, backend_started>>

\* llm_analysis.main, lines 102-104: whatever process_data_with_llm returned is
\* written to LLM_TEXT_OUTPUT, and the script ends with exit status 0
AnalysisExit ==
    /\ runner = "wait"
    /\ Script = "llm_analysis.py"
    /\ llm_pc = "returned"
    /\ files' = [files EXCEPT ![LLM_TEXT_OUTPUT(data_dir)] = "written"]
    /\ input' = IF LLM_TEXT_OUTPUT(data_dir) = INPUT_FILE_PATH THEN StrOf(analysis) ELSE input
    /\ RunScriptReturns("ok")
    /\ UNCHANGED <<storeVars, resolved, parseVars, open_conns, llmVars,
                   data_dir, started, backend_started>>

\* report_processor.main, lines 219-227: the input file is read and
\* parse_and_enrich_report entered
ReportRead ==
    /\ runner = "wait"
    /\ Script = "report_processor.py"
    /\ pc = "idle"
    /\ Exists(files, INPUT_FILE_PATH)
    /\ ParseStart

\* report_processor.main ends, lines 223-238: it returns when the input cannot
\* be read or nothing was parsed, it writes the report otherwise (an IOError is
\* caught), and an exception out of the parser ends the script with a traceback
ReportExit ==
    /\ runner = "wait"
    /\ Script = "report_processor.py"
    /\ \/ pc = "idle" /\ ~Exists(files, INPUT_FILE_PATH)
       \/ pc \in {"done", "raised"}
    /\ IF pc = "done" /\ parsed_report # <<>>
       THEN \E wrote \in BOOLEAN :
               files' = IF wrote THEN [files EXCEPT ![OUTPUT_FILENAME] = "written"]
                        ELSE files
       ELSE UNCHANGED files
    /\ RunScriptReturns(IF pc = "raised" THEN "nonzero" ELSE "ok")
    /\ UNCHANGED <<storeVars, resolved, input, parseVars, open_conns, llmVars,
                   data_dir, started, backend_started>>

\* main after the loop: start_backend()
StartBackend ==
    /\ runner = "loop"
    /\ step > Len(PIPELINE_SCRIPTS)
    /\ backend_started' = TRUE
    /\ runner' = "serving"
    /\ UNCHANGED <<storeVars, resolved, input, parseVars, open_conns, llmVars,
                   data_dir, files, step, started, finished, exit_status>>

NextPipeline ==
    \/ StartStep
    \/ RunScraper
    \/ RunCuration
    \/ AnalysisStart
    \/ AnalysisAbort
    \/ \E reply \in PipelineReplies : LlmAttempt(reply)
    \/ AnalysisExit
    \/ ReportRead
    \/ ParseMatch
    \/ ParseCite
    \/ ParseEmit
    \/ ParseRemaining
    \/ ReportExit
    \/ StartBackend

NextResolve ==
    \/ \E p \in Platforms : Rewrite(p)
    \/ \E citation_id \in IdSet : Resolve(citation_id)

NextParse ==
    \/ YoutubeInitialize
    \/ \E row \in {YoutubeRowA, YoutubeRowA2} : YoutubeInsert(row)
    \/ ParseStart
    \/ ParseMatch
    \/ ParseCite
    \/ ParseEmit
    \/ ParseRemaining

NextParseStores ==
    \/ \E p \in {"R", "YT"} : Rewrite(p)
    \/ ParseStart
    \/ ParseMatch
    \/ ParseCite
    \/ ParseEmit
    \/ ParseRemaining

NextLlm ==
    \/ LlmCall
    \/ \E reply \in LlmReplies : LlmAttempt(reply)

Next == NextResolve \/ NextParse \/ NextParseStores \/ NextPipeline \/ NextLlm

\* the resolver called directly, over every store state
SpecResolve == InitResolve /\ [][NextResolve]_vars

\* report-generation runs, the YouTube scraper filling its store meanwhile
SpecParse == Init /\ [][NextParse]_vars

\* report-generation runs over stores in any state
SpecParseStores == InitParseStores /\ [][NextParseStores]_vars

\* one run of run_pipeline.py
SpecPipeline == InitPipeline /\ [][NextPipeline]_vars

\* process_data_with_llm called directly
SpecLlm == InitLlm /\ [][NextLlm]_vars

\* the same, where a call that can go on does go on: every request ends (it has
\* a timeout) and every sleep ends
SpecLlmFair == SpecLlm /\ WF_vars(NextLlm)

Spec == Init /\ [][Next]_vars

-----------------------------------------------------------------------------
(* Properties of fetch_citation_details, checked under SpecResolve *)

Returned == resolved.called /\ resolved.out.kind = "return"

HasPrefix(citation_id, prefix) == StartsWith(citation_id, prefix)

KnownPrefix(citation_id) == \E prefix \in IdPrefixes : HasPrefix(citation_id, prefix)

\* the platform key a citation id names, by its prefix
KeyOfPrefix(prefix) ==
    CASE prefix = <<"R", "_">> -> "R"
      [] prefix = <<"Y", "T", "_">> -> "YT"
      [] prefix = <<"A", "S", "_">> -> "AS"
      [] prefix = <<"G", "P", "_">> -> "GP"

LabelOfPrefix(prefix) ==
    CASE prefix = <<"R", "_">> -> <<"Reddit">>
      [] prefix = <<"Y", "T", "_">> -> <<"Youtube">>
      [] prefix = <<"A", "S", "_">> -> <<"App Store">>
      [] prefix = <<"G", "P", "_">> -> <<"Google Play">>

\* C1: fetch_citation_details returns a record and lets no exception propagate,
\* for every citation id and every state of the stores.
C1_NeverRaises == resolved.called => resolved.out.kind = "return"

\* C2: for a citation id with a known prefix, the returned record carries that
\* prefix's platform label, whether the row is found, not found, or the store
\* is unavailable.
C2_PlatformLabel ==
    \A prefix \in IdPrefixes :
        (Returned /\ HasPrefix(resolved.id, prefix))
            => resolved.out.value.source_platform = LabelOfPrefix(prefix)

\* a found row, a missing row and an unavailable store each occur
C2_Witness ==
    /\ Returned
    /\ HasPrefix(resolved.id, <<"Y", "T", "_">>)
    /\ resolved.out.value.comment_text = PyStr(<<"nice">>)
    /\ resolved.out.value.source_platform = <<"Youtube">>

IsSubstring(part, whole) ==
    \E i \in 0..(Len(whole) - Len(part)) : Slice(whole, i, i + Len(part)) = part

\* no row of the store can answer a lookup for this id: the table is missing or
\* holds no row whose key occurs in the id, and the id holds no SQL of its own
NoRowFor(citation_id, st) ==
    /\ ~Contains(citation_id, "'")
    /\ ~Contains(citation_id, " OR ")
    /\ ~st.has_table \/ \A i \in 1..Len(st.rows) : ~IsSubstring(st.rows[i].key, citation_id)

\* C7: the three non-fatal failures give distinguishable sentinel records, each
\* with URL "#": no known prefix gives platform "Unknown"; a missing or
\* unopenable store gives the platform's label and the store-unavailable text; a
\* reachable store without a matching row gives the platform's label and the
\* not-found text; a store that exists but fails during the lookup is never
\* reported with the text of a missing store.
C7_Sentinels ==
    /\ InvalidIdText # ConnectionFailedText
    /\ InvalidIdText # NotInDatabaseText
    /\ ConnectionFailedText # NotInDatabaseText
    /\ (resolved.called /\ ~KnownPrefix(resolved.id)) =>
          /\ Returned
          /\ resolved.out.value.source_platform = <<"Unknown">>
          /\ resolved.out.value.comment_url = PyStr(<<"#">>)
          /\ resolved.out.value.comment_text = InvalidIdText
    /\ \A prefix \in IdPrefixes :
          (resolved.called /\ HasPrefix(resolved.id, prefix)) =>
             LET st == store[KeyOfPrefix(prefix)]
             IN  /\ st.file \in {"missing", "unopenable"} =>
                       /\ Returned
                       /\ resolved.out.value.source_platform = LabelOfPrefix(prefix)
                       /\ resolved.out.value.comment_url = PyStr(<<"#">>)
                       /\ resolved.out.value.comment_text = ConnectionFailedText
                 /\ (st.file \in {"ok", "corrupt"} /\ NoRowFor(resolved.id, st)) =>
                       /\ Returned
                       /\ resolved.out.value.source_platform = LabelOfPrefix(prefix)
                       /\ resolved.out.value.comment_url = PyStr(<<"#">>)
                       /\ resolved.out.value.comment_text = NotInDatabaseText
                 /\ (st.file \in {"ok", "corrupt"} /\ Returned) =>
                       resolved.out.value.comment_text # ConnectionFailedText

\* a store file that exists but fails on every statement
C7_Witness ==
    /\ Returned
    /\ HasPrefix(resolved.id, <<"G", "P", "_">>)
    /\ store["GP"].file = "corrupt"
    /\ resolved.out.value.comment_text = NotInDatabaseText

-----------------------------------------------------------------------------
(* Properties of parse_and_enrich_report, checked under SpecParse *)

Range(q) == {q[i] : i \in 1..Len(q)}

NoDuplicates(q) == \A i, j \in 1..Len(q) : q[i] = q[j] => i = j

\* the ids of the citations attached to an insight, in order
IdsOf(insight) == [i \in 1..Len(insight.citations) |-> insight.citations[i].id]

\* "[[", one or more characters other than "]", "]]" somewhere in text
HasCitationGroup(text) ==
    \E i, j \in 1..Len(text) :
        /\ j >= i + 3
        /\ j < Len(text)
        /\ text[i] = "[" /\ text[i + 1] = "["
        /\ text[j] = "]" /\ text[j + 1] = "]"
        /\ \A k \in (i + 2)..(j - 1) : text[k] # "]"

\* length of the citation group that starts at the head of text, 0 if none does
GroupLenAtHead(text) ==
    LET ends == {j \in 4..(Len(text) - 1) :
                    /\ text[j] = "]" /\ text[j + 1] = "]"
                    /\ \A k \in 3..(j - 1) : text[k] # "]"}
    IN  IF Len(text) >= 5 /\ text[1] = "[" /\ text[2] = "[" /\ ends # {}
        THEN Min(ends) + 1
        ELSE 0

\* text with every citation group cut out, scanning from the left
RECURSIVE RemoveGroups(_)
RemoveGroups(text) ==
    IF text = <<>> THEN <<>>
    ELSE LET n == GroupLenAtHead(text)
         IN  IF n > 0 THEN RemoveGroups(SubSeq(text, n + 1, Len(text)))
             ELSE <<Head(text)>> \o RemoveGroups(Tail(text))

RECURSIVE RemoveSpace(_)
RemoveSpace(text) ==
    IF text = <<>> THEN <<>>
    ELSE IF IsSpace(Head(text)) THEN RemoveSpace(Tail(text))
         ELSE <<Head(text)>> \o RemoveSpace(Tail(text))

RECURSIVE InsightTexts(_)
InsightTexts(report) ==
    IF report = <<>> THEN <<>>
    ELSE <<Head(report).insight>> \o InsightTexts(Tail(report))

\* C3: an insight whose group names an identifier more than once lists each
\* distinct identifier exactly once, and its text has no bracket remnants.
C3_DuplicatesCollapsed ==
    \A text \in PlainSegments :
        (pc = "done" /\ raw_text = text \o DupGroup) =>
            /\ Len(parsed_report) = 1
            /\ parsed_report[1].insight = text
            /\ Range(IdsOf(parsed_report[1])) = {IdX, IdYT}
            /\ NoDuplicates(IdsOf(parsed_report[1]))

\* every citation record attached so far, finished insights and the current one
AttachedCitations ==
    UNION {Range(parsed_report[k].citations) : k \in 1..Len(parsed_report)}
    \cup Range(cur.citations)

\* C4: within one run every occurrence of a citation id carries the same record,
\* fetch_citation_details is called at most once per id even if the store
\* changes between occurrences, and the cache holds nothing but this run's
\* fetches (it starts empty on every run).
C4_CacheConsistent ==
    /\ \A c1, c2 \in AttachedCitations : c1.id = c2.id => c1 = c2
    /\ NoDuplicates(fetch_log)
    /\ pc # "raised" => DOMAIN citation_cache = Range(fetch_log)
    /\ \A c \in AttachedCitations : c.id \in DOMAIN citation_cache /\ citation_cache[c.id] = c

\* two insights cite YT_a, and the store no longer gives the record they carry
C4_Witness ==
    /\ pc = "done"
    /\ Cardinality({k \in 1..Len(parsed_report) : IdYT \in Range(IdsOf(parsed_report[k]))}) >= 2
    /\ IdYT \in DOMAIN citation_cache
    /\ fetch_citation_details(IdYT, store) # Return(citation_cache[IdYT])

\* the texts occur in raw, one after the other, from offset from on
RECURSIVE OccurInOrder(_, _, _)
OccurInOrder(texts, raw, from) ==
    IF texts = <<>> THEN TRUE
    ELSE LET t == Head(texts)
             occ == {i \in from..(Len(raw) - Len(t)) : Slice(raw, i, i + Len(t)) = t}
         IN  /\ occ # {}
             /\ OccurInOrder(Tail(texts), raw, Min(occ) + Len(t))

\* C5: the insights of the returned list are in the order in which their blocks
\* appear in the input text.
C5_OrderPreserved ==
    pc = "done" => OccurInOrder(InsightTexts(parsed_report), raw_text, 0)

\* a cited insight followed by an uncited one, each with its own text
C5_Witness ==
    /\ pc = "done"
    /\ Len(parsed_report) = 2
    /\ parsed_report[1].insight = <<"a">>
    /\ parsed_report[1].citations # <<>>
    /\ parsed_report[2].insight = <<"*", "*", "b", "*", "*">>
    /\ parsed_report[2].citations = <<>>

\* C6: every insight has a citation count equal to the number of distinct
\* identifiers of its block, and exactly that many citation records.
C6_CountMatches ==
    pc = "done" =>
        \A k \in 1..Len(parsed_report) :
            LET distinct == Cardinality(Range(IdsOf(parsed_report[k])))
            IN  /\ "count" \in DOMAIN parsed_report[k]
                /\ parsed_report[k].count = distinct
                /\ Len(parsed_report[k].citations) = distinct

\* C8: no insight text contains a citation group or the whitespace around it,
\* and every other character of the input is kept as it was.
C8_MarkupRemoved ==
    pc = "done" =>
        /\ \A k \in 1..Len(parsed_report) :
              LET text == parsed_report[k].insight
              IN  /\ ~HasCitationGroup(text)
                  /\ text = Strip(text)
                  /\ IsSubstring(text, raw_text)
        /\ RemoveSpace(Concat(InsightTexts(parsed_report)))
              = RemoveSpace(RemoveGroups(raw_text))

\* emphasis markers survive next to a group that had whitespace before it
C8_Witness ==
    /\ pc = "done"
    /\ Len(parsed_report) = 2
    /\ parsed_report[1].insight = <<"*", "*", "b", "*", "*">>
    /\ Len(parsed_report[1].citations) = 3
    /\ parsed_report[2].insight = <<"a">>
    /\ IsSubstring(<<"*", " ", "[", "[">>, raw_text)

\* offset of the group that closes a numbered line, -1 if the line is not of the
\* form  N. text [[ids]]
NumberedLineGroup(line) ==
    LET opens == Occurrences(line, <<"[", "[">>)
    IN  IF /\ Len(line) >= 2
           /\ line[1] \in Digits
           /\ line[2] = "."
           /\ Cardinality(opens) = 1
           /\ GroupLenAtHead(SubSeq(line, Min(opens) + 1, Len(line))) = Len(line) - Min(opens)
        THEN Min(opens)
        ELSE 0 - 1

IsNumberedList(text) ==
    \A n \in 1..Len(Split(text, <<"\n">>)) : NumberedLineGroup(Split(text, <<"\n">>)[n]) >= 0

Upper(c) ==
    CASE c = "a" -> "A" [] c = "b" -> "B" [] c = "o" -> "O" [] c = "t" -> "T"
      [] c = "x" -> "X" [] OTHER -> c

UpperText(text) == [i \in 1..Len(text) |-> Upper(text[i])]

\* C10: with a colon in the first 30 characters of the cleaned text the insight
\* carries the uppercased text before the colon as topic and the rest as body;
\* otherwise the topic is "General" and the body is the whole cleaned text.
C10_TopicSplit ==
    (pc = "done" /\ Len(parsed_report) = 1) =>
        LET cleaned == Strip(RemoveGroups(raw_text))
            colons == {i \in 1..Len(cleaned) : cleaned[i] = ":"}
            early == colons # {} /\ Min(colons) <= 30
            got == parsed_report[1]
        IN  /\ "topic" \in DOMAIN got
            /\ early =>
                  /\ got.topic = UpperText(Strip(SubSeq(cleaned, 1, Min(colons) - 1)))
                  /\ got.insight = Strip(SubSeq(cleaned, Min(colons) + 1, Len(cleaned)))
            /\ ~early =>
                  /\ got.topic = <<"General">>
                  /\ got.insight = cleaned

-----------------------------------------------------------------------------
(* Blocks: the text between blank lines *)

\* one block (no blank line) that holds two citation groups
TwoGroupBlocks ==
    {YtGroup \o text \o YtGroup : text \in PlainSegments}
    \cup {text \o DupGroup \o YtGroup : text \in PlainSegments}

\* C14: a block that holds more than one citation group gives exactly one
\* insight, whose citations are the identifiers of all its groups, each once, in
\* sorted order.
C14_OneInsightPerBlock ==
    (pc = "done" /\ raw_text \in TwoGroupBlocks) =>
        /\ Len(parsed_report) = 1
        /\ IdsOf(parsed_report[1])
              = (IF IsSubstring(IdX, raw_text) THEN <<IdX, IdYT>> ELSE <<IdYT>>)

\* every bracket of text belongs to a citation group
WellFormed(text) ==
    LET rest == RemoveGroups(text)
    IN  ~Contains(rest, "[") /\ ~Contains(rest, "]")

\* C15: for a text whose brackets all belong to citation groups, no insight text
\* is empty, and no insight text holds the blank-line
\* delimiter, that is, none spans two blocks.
C15_OneBlockPerInsight ==
    (pc = "done" /\ WellFormed(raw_text)) =>
        \A k \in 1..Len(parsed_report) :
            /\ parsed_report[k].insight # <<>>
            /\ ~IsSubstring(BlankLine, parsed_report[k].insight)

\* C16: a block without citation markers is emitted as its own insight with an
\* empty citations list, when it follows the last cited block and when it
\* precedes a cited block.
C16_UncitedPolicy ==
    \A uncited, cited \in PlainSegments :
        /\ (pc = "done" /\ raw_text = cited \o YtGroup \o BlankLine \o uncited) =>
              /\ Len(parsed_report) = 2
              /\ parsed_report[2] = Insight(uncited, <<>>)
        /\ (pc = "done" /\ raw_text = uncited \o BlankLine \o cited \o YtGroup) =>
              /\ Len(parsed_report) = 2
              /\ parsed_report[1] = Insight(uncited, <<>>)

-----------------------------------------------------------------------------
(* The ids the curation exporter builds, and their way back to the native key *)

\* get_top_comments.py, full_verifiable_id: R_<post_id>:<comment_id>,
\* YT_<comment_id>, AS_<review_id>; GP_<review_id> is the format
\* fetch_citation_details expects (the exporter reads no Google Play store)
full_verifiable_id(platform_key, post_id, native_key) ==
    CASE platform_key = "R" -> <<"R", "_">> \o post_id \o <<":">> \o native_key
      [] platform_key = "YT" -> <<"Y", "T", "_">> \o native_key
      [] platform_key = "AS" -> <<"A", "S", "_">> \o native_key
      [] platform_key = "GP" -> <<"G", "P", "_">> \o native_key

\* native keys: plain, numeric, and with an underscore inside
NativeKeys == {<<"a">>, <<"9">>, <<"a", "_", "b">>}

\* C17: the key fetch_citation_details extracts from an id built by the exporter
\* is the native key the id was built from, on every platform and for every
\* native key, one with an underscore included.
C17_KeyRoundTrip ==
    \A platform_key \in Platforms, native_key \in NativeKeys :
        (resolved.called
         /\ get_db_connection(store[platform_key])
         /\ resolved.id = full_verifiable_id(platform_key, <<"p">>, native_key))
            => DbId(platform_key, resolved.id) = native_key

\* the call returned a record built from a row, not one of the sentinels
FoundRecord ==
    /\ Returned
    /\ resolved.out.value.comment_text
          \notin {InvalidIdText, ConnectionFailedText, NotInDatabaseText}

\* C18: a found record comes from a row whose key column equals the key
\* extracted from the citation id; no id makes the lookup return another row.
C18_ExactMatch ==
    \A prefix \in IdPrefixes :
        (FoundRecord /\ HasPrefix(resolved.id, prefix)) =>
            LET platform_key == KeyOfPrefix(prefix)
                st == store[platform_key]
            IN  \E i \in 1..Len(st.rows) :
                    /\ st.rows[i].key = DbId(platform_key, resolved.id)
                    /\ st.rows[i].text = resolved.out.value.comment_text

\* the YYYY-MM-DD strings of the dates the stores of the model hold
YmdTokens ==
    {"2024-01-02"} \cup {Strftime(d.n) : d \in {x \in RedditDates : x.t = "num" /\ TimestampInRange(x.n)}}

IsYmd(date) == date.t = "str" /\ Len(date.s) = 1 /\ date.s[1] \in YmdTokens

\* C19: the date of a returned record is a YYYY-MM-DD string or None, whatever
\* the platform and the stored representation of the date.
C19_DateShape ==
    Returned => (resolved.out.value.date = PyNone \/ IsYmd(resolved.out.value.date))

-----------------------------------------------------------------------------
(* Connections *)

\* C13: after every call of fetch_citation_details, whichever way it left the
\* function (row found, no row, SQL error, another error while the record is
\* built), no connection it opened is still open.
C13_ConnectionsClosed ==
    /\ open_conns = 0
    /\ resolved.called =>
          /\ resolved.path \in {"invalid_id", "no_connection", "found", "not_found",
                                "sql_error", "raised"}
          /\ resolved.path = "raised" <=> resolved.out.kind = "raise"
          /\ Connects(resolved.path) => Closes(resolved.path)

\* fromtimestamp raised while the record was built, over an open connection
C13_Witness ==
    /\ resolved.called
    /\ resolved.path = "raised"
    /\ Connects(resolved.path)
    /\ open_conns = 0

-----------------------------------------------------------------------------
(* Properties of parse_and_enrich_report over stores in any state, checked   *)
(* under SpecParseStores                                                     *)

\* C12: parse_and_enrich_report never aborts: whatever the input text, a run
\* that has started does not end in an exception.
C12_NeverAborts == pc # "raised"

-----------------------------------------------------------------------------
(* Properties of run_pipeline.main, checked under SpecPipeline *)

\* the report step has run and ended, and the file it reads was not there
ReportRanWithoutInput ==
    /\ Len(finished) = Len(PIPELINE_SCRIPTS)
    /\ ~Exists(files, INPUT_FILE_PATH)

\* C11: when the raw LLM text file is missing as the report step runs, no
\* report file is written, and the run halts with status 1 and does not start
\* the backend.
C11_MissingInputHalts ==
    ReportRanWithoutInput =>
        /\ files[OUTPUT_FILENAME] # "written"
        /\ runner = "halted"
        /\ exit_status = 1
        /\ ~backend_started

\* C20: the scripts start in the listed order, one at a time, each only after
\* all earlier ones ended with exit status 0; after the first script that
\* fails nothing more is started, the exit status is 1 and the backend is not
\* started; the backend is started only after every script succeeded.
C20_SequentialHalt ==
    /\ Len(started) <= Len(PIPELINE_SCRIPTS)
    /\ \A i \in 1..Len(started) : started[i] = PIPELINE_SCRIPTS[i]
    /\ Len(finished) <= Len(started) /\ Len(started) <= Len(finished) + 1
    /\ runner = "wait" <=> Len(started) = Len(finished) + 1
    /\ \A i \in 1..Len(finished) : i < Len(started) => finished[i] = "ok"
    /\ (\E i \in 1..Len(finished) : finished[i] # "ok") <=>
          (runner = "halted" /\ exit_status = 1)
    /\ exit_status \in {NotExited, 1}
    /\ runner = "halted" => ~backend_started /\ Len(started) = Len(finished)
    /\ backend_started <=>
          /\ runner = "serving"
          /\ Len(finished) = Len(PIPELINE_SCRIPTS)
          /\ \A i \in 1..Len(finished) : finished[i] = "ok"

\* the third script failed: two scripts succeeded before it, none ran after it
C20_Witness ==
    /\ runner = "halted"
    /\ started = SubSeq(PIPELINE_SCRIPTS, 1, 3)
    /\ finished = <<"ok", "ok", "nonzero">>
    /\ exit_status = 1
    /\ ~backend_started

-----------------------------------------------------------------------------
(* The YouTube deep link *)

\* C25: when a YouTube citation resolves to the row whose comment_id is the key
\* used for the lookup, the link carries that row's video id and, as lc, that
\* same key, whether or not the key holds an underscore.
C25_DeepLinkKey ==
    (FoundRecord /\ HasPrefix(resolved.id, <<"Y", "T", "_">>)) =>
        LET db_id == DbId("YT", resolved.id)
            rows == store["YT"].rows
            hits == {i \in 1..Len(rows) : rows[i].key = db_id}
        IN  hits # {} =>
               resolved.out.value.comment_url
                  = PyStr(<<"https://www.youtube.com/watch?v=">> \o StrOf(rows[Min(hits)].link)
                          \o <<"&lc=">> \o db_id)

-----------------------------------------------------------------------------
(* Resolution and the store files *)

\* C24: a call of fetch_citation_details leaves all four stores as they were:
\* no content changes and no file is created where none was.
C24_ReadOnly ==
    [][(resolved'.called /\ resolved' # resolved) => store' = store]_vars

\* a call for a platform whose store file is absent, and is absent afterwards
C24_Witness ==
    /\ resolved.called
    /\ resolved.path = "no_connection"
    /\ store[PrefixMatch(resolved.id)] = MissingStore

-----------------------------------------------------------------------------
(* Properties of process_data_with_llm, checked under SpecLlmFair *)

\* at most MAX_RETRIES requests; the k-th failed request, k = 0..MAX_RETRIES-2,
\* is followed by a wait of INITIAL_DELAY * 2^k seconds and the last one by
\* none; a returned content is that of a request made after failures only, and
\* is the last request made; after MAX_RETRIES failures the value begins "Error:"
RetryDiscipline ==
    /\ requests <= MAX_RETRIES
    /\ Len(delays) <= MAX_RETRIES - 1
    /\ \A k \in 1..Len(delays) : delays[k] = INITIAL_DELAY * Pow2(k - 1)
    /\ llm_pc \in {"idle", "request", "returned"}
    /\ llm_pc = "request" => requests = Len(delays) /\ requests < MAX_RETRIES
    /\ (llm_pc = "returned" /\ ~api_key) =>
          requests = 0 /\ delays = <<>> /\ StartsWith(StrOf(analysis), <<"Error", ":">>)
    /\ (llm_pc = "returned" /\ api_key /\ response # PyNone) =>
          /\ requests = Len(delays) + 1
          /\ analysis = PyStr(CleanContent(StrOf(response)))
    /\ (llm_pc = "returned" /\ api_key /\ response = PyNone) =>
          /\ requests = MAX_RETRIES
          /\ Len(delays) = MAX_RETRIES - 1
          /\ StartsWith(StrOf(analysis), <<"Error", ":">>)

\* C23: process_data_with_llm keeps to the retry discipline at every point, and
\* every call returns.
C23_BoundedRetries == []RetryDiscipline /\ <>(llm_pc = "returned")

\* the content of the third request is returned, after waits of 5 and 10 seconds
C23_Witness ==
    /\ llm_pc = "returned"
    /\ requests = 3
    /\ delays = <<5, 10>>
    /\ response # PyNone
    /\ analysis = PyStr(<<"a">>)

-----------------------------------------------------------------------------
(* The analysis step without LLM output *)

\* process_data_with_llm returned without a successful request: no API key, or
\* every attempt failed
AnalysisFailed == llm_pc = "returned" /\ response = PyNone

\* C22: when the analysis step obtains no LLM output, the run halts at that
\* step: the step does not end with exit status 0, the error text is not
\* written as the raw LLM text, report_processor.py is not started, and no
\* report file is written.
C22_FailedAnalysisHalts ==
    (AnalysisFailed /\ Len(finished) >= 6) =>
        /\ finished[6] # "ok"
        /\ runner = "halted"
        /\ files[LLM_TEXT_OUTPUT(data_dir)] # "written"
        /\ Len(started) = 6
        /\ files[OUTPUT_FILENAME] # "written"

-----------------------------------------------------------------------------
(* The paths that join the stages of one run *)

\* DB_NAME / DATABASE_NAME of the scrapers: os.path.join(DATA_DIR, "<name>.db")
ScraperDbName(p) ==
    CASE p = "AS" -> "app_reviews.db"
      [] p = "R" -> "reddit_data.db"
      [] p = "YT" -> "youtube_comments.db"
      [] p = "GP" -> "google_play_reviews.db"

ScraperDbPath(dir, p) == Path(dir, ScraperDbName(p))

\* REDDIT_DB, YOUTUBE_DB and APP_STORE_DB of get_top_comments.py, relative to
\* the working directory
CuratedPlatforms == {"R", "YT", "AS"}

CurationDbPath(p) ==
    CASE p = "R" -> Path(".", "reddit_data.db")
      [] p = "YT" -> Path(".", "youtube_comments.db")
      [] p = "AS" -> Path(".", "app_reviews.db")

\* get_top_comments.py was run: main calls connect_db on its three paths before
\* anything else (lines 163-165)
CurationHasRead == Len(finished) >= 5 /\ finished[5] # "not_found"

\* llm_analysis.main has opened INPUT_JSON_FILE
AnalysisHasRead == Len(started) >= 6 /\ llm_pc # "idle"

\* report_processor.main has opened INPUT_FILE_PATH
ReportHasRead == Len(started) >= 7 /\ pc # "idle"

\* C21: in one run each stage reads at the path its producer writes: the
\* curation step opens the store files the scrapers write, the analysis step
\* opens the curated JSON at the path the curation step writes it, and the
\* report step opens the LLM text at the path the analysis step writes it.
C21_StagesChained ==
    /\ CurationHasRead =>
          \A p \in CuratedPlatforms : CurationDbPath(p) = ScraperDbPath(data_dir, p)
    /\ AnalysisHasRead => INPUT_JSON_FILE(data_dir) = CURATED_OUTPUT_FILENAME
    /\ ReportHasRead => INPUT_FILE_PATH = LLM_TEXT_OUTPUT(data_dir)

====
